---- MODULE Spec2Model ----
(***************************************************************************)
(* A model of three subsystems of the repository:                          *)
(*   - the SplitHTTP transport dialer (package splithttp, Dial),           *)
(*   - the WireGuard inbound handler (package wireguard): the datagram     *)
(*     hand-off of Server.Process and the connection-forward pipeline of   *)
(*     Server.forwardConnection,                                           *)
(*   - the VLESS framing helpers (package encoding): the length-packet     *)
(*     codec, the addon header codec and CheckSeed.                        *)
(* Each subsystem has its own specification over its own variables; the    *)
(* variables of the other subsystems stay at their initial values.         *)
(***************************************************************************)
EXTENDS Integers, Sequences, FiniteSets, TLC

(***************************************************************************)
(* Bounds of the model.                                                    *)
(***************************************************************************)
\* transportConfiguration.GetNormalizedMaxConcurrentUploads()
MaxConcurrentUploads == 1
\* transportConfiguration.GetNormalizedMaxUploadSize(), in bytes
MaxUploadSize == 3
\* the number of Write calls the caller makes in a session
MaxWrites == 4

(***************************************************************************)
(* Small helpers.                                                          *)
(***************************************************************************)
Min(a, b) == IF a < b THEN a ELSE b

Range(s) == {s[i] : i \in 1..Len(s)}

IsPrefix(s, t) == Len(s) <= Len(t) /\ SubSeq(t, 1, Len(s)) = s

\* the bytes from position k+1 on
Drop(s, k) == SubSeq(s, k + 1, Len(s))

(***************************************************************************)
(* SplitHTTP: state.                                                       *)
(***************************************************************************)
VARIABLES
  dialPc,           \* position of Dial: "newreq","do","status","launch","ack","done"
  dialRet,          \* what Dial returned: "none", "conn", "error"
  dialErr,          \* the error Dial returned: [msg, status]
  downStatus,       \* downResponse.StatusCode (0: no response yet)
  downBody,         \* the bytes the server sends on the download body before closing
  bodyPos,          \* how many bytes of downResponse.Body have been consumed
  delivered,        \* the bytes the caller has read from the connection
  pipeExists,       \* pipe.New has run
  pipeData,         \* the bytes buffered in the upload pipe
  pipeClosed,       \* the pipe's write end has been closed
  callerPc,         \* the caller: "idle", "flush" (inside Write, in Flush), "closed"
  bwBuf,            \* the bytes held by the buf.BufferedWriter
  written,          \* the number of bytes the caller has passed to Write
  writesDone,       \* the number of Write calls that have returned
  prodPc,           \* the producer goroutine: "none", "read", "wait", "exited"
  chunk,            \* the multi-buffer the producer holds
  requestsLimiter,  \* the free permits of the semaphore
  requestCounter,   \* the producer's requestCounter
  uploaders,        \* the uploader goroutines that have not exited
  launched,         \* the seq of every uploader launched, in launch order
  bodies,           \* the chunk given to every uploader launched, in launch order
  posts,            \* the (seq, body) of every POST handed to httpClient.Do
  exitPaths         \* the ways uploaders have exited so far

splitVars == <<dialPc, dialRet, dialErr, downStatus, downBody, bodyPos, delivered,
               pipeExists, pipeData, pipeClosed, callerPc, bwBuf, written,
               writesDone, prodPc, chunk, requestsLimiter, requestCounter,
               uploaders, launched, bodies, posts, exitPaths>>

dialVars == <<dialPc, dialRet, dialErr, downStatus, downBody, bodyPos>>
callerVars == <<callerPc, bwBuf, written, writesDone>>
pipeVars == <<pipeExists, pipeData, pipeClosed>>
prodVars == <<prodPc, chunk, requestCounter, launched, bodies>>
upVars == <<requestsLimiter, uploaders, posts, exitPaths>>

VARIABLES
  fPc,             \* forwardConnection: "start","dropped","timer","run","returned","panic"
  linkNil,         \* Dispatch returned no link
  ctxDone,         \* the flow's context is cancelled
  cancelBy,        \* who cancelled it first: "none", "timer", "defer"
  timeout,         \* the timer's current timeout
  idle,            \* ticks since the timer was last rearmed
  sinceTransport,  \* ticks since a buffer was last transported (or the flow began)
  reqPc,           \* request half: "idle","copy","done","closed","failed"
  respPc,          \* response half: "idle","copy","done","failed"
  writerClosed,    \* link.Writer has been closed
  interrupted,     \* link.Reader and link.Writer have been interrupted
  connClosed,      \* conn.Close() has run
  procCtxDone,     \* the context passed to Process is cancelled (the inbound call ended)
  ctxParent        \* the parent of the flow's context: "none", "background", "process"

fwdVars == <<fPc, linkNil, ctxDone, cancelBy, timeout, idle, sinceTransport,
             reqPc, respPc, writerClosed, interrupted, connClosed, procCtxDone,
             ctxParent>>

inboundVars == <<procCtxDone, ctxParent>>

timerVars == <<timeout, idle>>
halfVars == <<reqPc, respPc, writerClosed>>

VARIABLES
  lpwCache,        \* LengthPacketWriter.cache between calls
  lpwRet,          \* what the last LengthPacketWriter.WriteMultiBuffer returned
  pktStream,       \* the bytes written to the stream and not yet read
  pktClosed,       \* the stream has ended (no more writes)
  pktSent,         \* the buffer lengths of every non-empty packet written
  pktRead,         \* the multi-buffers LengthPacketReader.ReadMultiBuffer returned
  pktErr           \* the error the reader returned, "" when none

lpVars == <<lpwCache, lpwRet, pktStream, pktClosed, pktSent, pktRead, pktErr>>

VARIABLES
  mlCalled,        \* MultiLengthPacketWriter.WriteMultiBuffer has been called
  mlIn,            \* the buffer lengths of the multi-buffer of the last call
  mlOut,           \* the writes that call made to the underlying writer
  mlRet            \* what that call returned

mlVars == <<mlCalled, mlIn, mlOut, mlRet>>

VARIABLES
  adPc,            \* "input", "encoded", "decoded"
  adIn,            \* the addons given to EncodeHeaderAddons
  adWire,          \* the bytes EncodeHeaderAddons wrote to the buffer
  adEncErr,        \* the error EncodeHeaderAddons returned, "" when nil
  adOut,           \* the addons DecodeHeaderAddons returned
  adDecErr,        \* the error DecodeHeaderAddons returned, "" when nil
  adLeft,          \* the bytes DecodeHeaderAddons left unread in the reader
  adUnmarshal      \* DecodeHeaderAddons called proto.Unmarshal

adVars == <<adPc, adIn, adWire, adEncErr, adOut, adDecErr, adLeft, adUnmarshal>>

VARIABLES
  csA,             \* requestAddons of CheckSeed
  csB,             \* responseAddons of CheckSeed
  csRet            \* what CheckSeed returned: "none" before the call, "nil", or the error

csVars == <<csA, csB, csRet>>

VARIABLES
  procPc,          \* Server.Process: "start","read","recv","fill","signal","returned"
  procRet,         \* what Process returned: "none", "nil", or the error
  eofFrom,         \* where Process met io.EOF: "none", "reader", "payload"
  nepConn,         \* nep.conn: "nil" or "conn"
  nRead,           \* the number of payloads read from conn so far
  mpayload,        \* the payloads of the current multi-buffer not yet handed off
  readQueue,       \* s.bindServer.readQueue: the elements waiting in the channel
  queueClosed,     \* the channel has been closed
  elems,           \* the queue elements ever made, by id
  cur,             \* v, the element Process holds (0: none)
  handoff          \* the (element, payload) pairs signalled, in order

procVars == <<procPc, procRet, eofFrom, nepConn, nRead, mpayload, readQueue,
              queueClosed, elems, cur, handoff>>

VARIABLES
  sInfo,           \* s.info: per field, the Process call that wrote it (0: zero value)
  infoPending,     \* per Process call, the fields of s.info it has still to write
  flows,           \* per forwarder, its goroutine: pc, the fields of s.info it has
                   \* still to copy, and its copy of the routing info
  dispatched       \* the flows for which Dispatch has been called

routeVars == <<sInfo, infoPending, flows, dispatched>>

\* what the actions of one subsystem leave alone
notSplit == <<fwdVars, lpVars, mlVars, adVars, csVars, procVars, routeVars>>
notFwd == <<splitVars, lpVars, mlVars, adVars, csVars, procVars, routeVars>>
notLp == <<splitVars, fwdVars, mlVars, adVars, csVars, procVars, routeVars>>
notMl == <<splitVars, fwdVars, lpVars, adVars, csVars, procVars, routeVars>>
notAd == <<splitVars, fwdVars, lpVars, mlVars, csVars, procVars, routeVars>>
notCs == <<splitVars, fwdVars, lpVars, mlVars, adVars, procVars, routeVars>>
notProc == <<splitVars, fwdVars, lpVars, mlVars, adVars, csVars, routeVars>>
notRoute == <<splitVars, fwdVars, lpVars, mlVars, adVars, csVars, procVars>>

vars == <<splitVars, fwdVars, lpVars, mlVars, adVars, csVars, procVars, routeVars>>

NoErr == [msg |-> "", status |-> 0]

\* the HTTP statuses the server answers with
Statuses == {200, 404}

\* the sizes of the caller's Writes, in bytes
WriteLens == {1, 3}

\* the lengths of the download response body the server sends before closing
BodyLens == {0, 1, 2, 3}

\* a response body of k bytes; byte i has the value 110 + i
Body(k) == [i \in 1..k |-> 110 + i]

SplitInit ==
  /\ dialPc = "newreq"
  /\ dialRet = "none"
  /\ dialErr = NoErr
  /\ downStatus = 0
  /\ downBody = <<>>
  /\ bodyPos = 0
  /\ delivered = <<>>
  /\ pipeExists = FALSE
  /\ pipeData = <<>>
  /\ pipeClosed = FALSE
  /\ callerPc = "idle"
  /\ bwBuf = <<>>
  /\ written = 0
  /\ writesDone = 0
  /\ prodPc = "none"
  /\ chunk = <<>>
  /\ requestsLimiter = 0
  /\ requestCounter = 0
  /\ uploaders = {}
  /\ launched = <<>>
  /\ bodies = <<>>
  /\ posts = {}
  /\ exitPaths = {}

(***************************************************************************)
(* SplitHTTP: Dial.                                                        *)
(***************************************************************************)
\* http.NewRequestWithContext("GET", ...): fails on a URL that does not parse
DialNewRequest ==
  /\ dialPc = "newreq"
  /\ \E ok \in BOOLEAN :
       IF ok
       THEN /\ dialPc' = "do"
            /\ UNCHANGED <<dialRet, dialErr>>
       ELSE /\ dialPc' = "done"
            /\ dialRet' = "error"
            /\ dialErr' = [msg |-> "request build", status |-> 0]
  /\ UNCHANGED <<downStatus, downBody, bodyPos, delivered>>
  /\ UNCHANGED <<pipeVars, callerVars, prodVars, upVars>>
  /\ UNCHANGED notSplit

\* httpClient.Do(req): a transport error, or a response with a status and a body
DialDo ==
  /\ dialPc = "do"
  /\ \/ /\ dialPc' = "done"
        /\ dialRet' = "error"
        /\ dialErr' = [msg |-> "transport", status |-> 0]
        /\ UNCHANGED <<downStatus, downBody>>
     \/ \E st \in Statuses, k \in BodyLens :
          /\ dialPc' = "status"
          /\ downStatus' = st
          /\ downBody' = Body(k)
          /\ UNCHANGED <<dialRet, dialErr>>
  /\ UNCHANGED <<bodyPos, delivered>>
  /\ UNCHANGED <<pipeVars, callerVars, prodVars, upVars>>
  /\ UNCHANGED notSplit

\* if downResponse.StatusCode != 200 { return nil, newError(..., downResponse.Status) }
DialCheckStatus ==
  /\ dialPc = "status"
  /\ IF downStatus # 200
     THEN /\ dialPc' = "done"
          /\ dialRet' = "error"
          /\ dialErr' = [msg |-> "invalid status code on download:", status |-> downStatus]
     ELSE /\ dialPc' = "launch"
          /\ UNCHANGED <<dialRet, dialErr>>
  /\ UNCHANGED <<downStatus, downBody, bodyPos, delivered>>
  /\ UNCHANGED <<pipeVars, callerVars, prodVars, upVars>>
  /\ UNCHANGED notSplit

\* pipe.New(pipe.WithSizeLimit(maxUploadSize)); go func() { requestsLimiter :=
\* semaphore.New(maxConcurrentUploads); var requestCounter int64; for {...} }()
DialLaunch ==
  /\ dialPc = "launch"
  /\ dialPc' = "ack"
  /\ pipeExists' = TRUE
  /\ pipeData' = <<>>
  /\ pipeClosed' = FALSE
  /\ prodPc' = "read"
  /\ requestsLimiter' = MaxConcurrentUploads
  /\ requestCounter' = 0
  /\ UNCHANGED <<dialRet, dialErr, downStatus, downBody, bodyPos, delivered>>
  /\ UNCHANGED <<callerVars, chunk, launched, bodies, uploaders, posts, exitPaths>>
  /\ UNCHANGED notSplit

\* DialReadAck with a one-byte trashHeader
DialReadAck_OneByte ==
  /\ dialPc = "ack"
  /\ dialPc' = "done"
  /\ bodyPos' = Min(1, Len(downBody))
  /\ IF Len(downBody) < 1
     THEN /\ dialRet' = "error"
          /\ dialErr' = [msg |-> "failed to read initial response", status |-> 0]
     ELSE /\ dialRet' = "conn"
          /\ UNCHANGED dialErr
  /\ UNCHANGED <<downStatus, downBody, delivered>>
  /\ UNCHANGED <<pipeVars, callerVars, prodVars, upVars>>
  /\ UNCHANGED notSplit

\* io.ReadFull(downResponse.Body, trashHeader): two bytes, or an error
DialReadAck ==
  /\ dialPc = "ack"
  /\ dialPc' = "done"
  /\ bodyPos' = Min(2, Len(downBody))
  /\ IF Len(downBody) < 2
     THEN /\ dialRet' = "error"
          /\ dialErr' = [msg |-> "failed to read initial response", status |-> 0]
     ELSE /\ dialRet' = "conn"
          /\ UNCHANGED dialErr
  /\ UNCHANGED <<downStatus, downBody, delivered>>
  /\ UNCHANGED <<pipeVars, callerVars, prodVars, upVars>>
  /\ UNCHANGED notSplit

\* the caller reads from the connection: conn.reader is downResponse.Body
ConnRead ==
  /\ dialRet = "conn"
  /\ bodyPos < Len(downBody)
  /\ delivered' = Append(delivered, downBody[bodyPos + 1])
  /\ bodyPos' = bodyPos + 1
  /\ UNCHANGED <<dialPc, dialRet, dialErr, downStatus, downBody>>
  /\ UNCHANGED <<pipeVars, callerVars, prodVars, upVars>>
  /\ UNCHANGED notSplit

(***************************************************************************)
(* SplitHTTP: the upload pipe (transport/pipe, buf.BufferedWriter).        *)
(***************************************************************************)
\* pipe.WithSizeLimit(maxUploadSize): a write of n bytes is taken when the pipe
\* then holds no more than its size limit, and blocks otherwise
PipeHasRoom(n) == Len(pipeData) + n <= MaxUploadSize

\* ReadMultiBuffer on the pipe's read end returns everything the pipe holds; it
\* blocks on an open empty pipe
PipeCanRead == pipeData # <<>>

\* ReadMultiBuffer fails once the pipe is closed and drained
PipeReadFails == pipeData = <<>> /\ pipeClosed

\* the i-th byte the caller writes is the number i
NewBytes(n) == [i \in 1..n |-> written + i]

\* Write without its call of Flush: it returns with the bytes still in the
\* buffered writer
Write_NoFlush(n) ==
  /\ dialRet = "conn"
  /\ callerPc = "idle"
  /\ writesDone < MaxWrites
  /\ bwBuf' = bwBuf \o NewBytes(n)
  /\ written' = written + n
  /\ writesDone' = writesDone + 1
  /\ UNCHANGED callerPc
  /\ UNCHANGED <<dialVars, delivered, pipeVars, prodVars, upVars>>
  /\ UNCHANGED notSplit

\* uploadWriter.Write, up to its call of Flush: c.uploadPipe.Write(b) puts b in
\* the buffered writer, and err == nil leads to c.uploadPipe.Flush()
Write(n) ==
  /\ dialRet = "conn"
  /\ callerPc = "idle"
  /\ writesDone < MaxWrites
  /\ bwBuf' = bwBuf \o NewBytes(n)
  /\ written' = written + n
  /\ callerPc' = "flush"
  /\ UNCHANGED writesDone
  /\ UNCHANGED <<dialVars, delivered, pipeVars, prodVars, upVars>>
  /\ UNCHANGED notSplit

\* Flush with the pipe's content replaced by the flushed bytes instead of the
\* flushed bytes being appended to it
Flush_Overwrite ==
  /\ callerPc = "flush"
  /\ PipeHasRoom(Len(bwBuf))
  /\ pipeData' = bwBuf
  /\ bwBuf' = <<>>
  /\ callerPc' = "idle"
  /\ writesDone' = writesDone + 1
  /\ UNCHANGED <<written, pipeExists, pipeClosed>>
  /\ UNCHANGED <<dialVars, delivered, prodVars, upVars>>
  /\ UNCHANGED notSplit

\* c.uploadPipe.Flush() inside uploadWriter.Write: the buffered bytes go to the
\* pipe as one multi-buffer, blocking while the pipe is full; then Write returns
Flush ==
  /\ callerPc = "flush"
  /\ PipeHasRoom(Len(bwBuf))
  /\ pipeData' = pipeData \o bwBuf
  /\ bwBuf' = <<>>
  /\ callerPc' = "idle"
  /\ writesDone' = writesDone + 1
  /\ UNCHANGED <<written, pipeExists, pipeClosed>>
  /\ UNCHANGED <<dialVars, delivered, prodVars, upVars>>
  /\ UNCHANGED notSplit

\* uploadWriter.Close: c.uploadPipe.Close() closes the pipe's write end. The
\* caller is one goroutine: it closes between Writes and does not Write afterwards
Close ==
  /\ dialRet = "conn"
  /\ callerPc = "idle"
  /\ callerPc' = "closed"
  /\ pipeClosed' = TRUE
  /\ UNCHANGED <<bwBuf, written, writesDone, pipeExists, pipeData>>
  /\ UNCHANGED <<dialVars, delivered, prodVars, upVars>>
  /\ UNCHANGED notSplit

(***************************************************************************)
(* SplitHTTP: the producer goroutine and the uploader goroutines.          *)
(***************************************************************************)
\* ProducerRead with the loop left as soon as the pipe is closed, whatever
\* it still holds
ProducerRead_ExitOnClose ==
  /\ prodPc = "read"
  /\ IF pipeClosed
     THEN /\ prodPc' = "exited"
          /\ UNCHANGED <<chunk, pipeData>>
     ELSE /\ PipeCanRead
          /\ chunk' = pipeData
          /\ pipeData' = <<>>
          /\ prodPc' = "wait"
  /\ UNCHANGED <<pipeExists, pipeClosed, requestCounter, launched, bodies>>
  /\ UNCHANGED <<dialVars, delivered, callerVars, upVars>>
  /\ UNCHANGED notSplit

\* chunk, err := uploadPipeReader.ReadMultiBuffer(); if err != nil { break }
ProducerRead ==
  /\ prodPc = "read"
  /\ IF PipeCanRead
     THEN /\ chunk' = pipeData
          /\ pipeData' = <<>>
          /\ prodPc' = "wait"
     ELSE /\ PipeReadFails
          /\ prodPc' = "exited"
          /\ UNCHANGED <<chunk, pipeData>>
  /\ UNCHANGED <<pipeExists, pipeClosed, requestCounter, launched, bodies>>
  /\ UNCHANGED <<dialVars, delivered, callerVars, upVars>>
  /\ UNCHANGED notSplit

\* ProducerLaunch without <-requestsLimiter.Wait()
ProducerLaunch_NoWait ==
  /\ prodPc = "wait"
  /\ requestsLimiter' = requestsLimiter - 1
  /\ uploaders' = uploaders \cup {[seq |-> requestCounter, body |-> chunk, pc |-> "build"]}
  /\ launched' = Append(launched, requestCounter)
  /\ bodies' = Append(bodies, chunk)
  /\ requestCounter' = requestCounter + 1
  /\ chunk' = <<>>
  /\ prodPc' = "read"
  /\ UNCHANGED <<posts, exitPaths>>
  /\ UNCHANGED <<dialVars, delivered, callerVars, pipeVars>>
  /\ UNCHANGED notSplit

\* ProducerLaunch with requestCounter += 1 moved into the uploader's success path
ProducerLaunch_CountOnSuccess ==
  /\ prodPc = "wait"
  /\ requestsLimiter > 0
  /\ requestsLimiter' = requestsLimiter - 1
  /\ uploaders' = uploaders \cup {[seq |-> requestCounter, body |-> chunk, pc |-> "build"]}
  /\ launched' = Append(launched, requestCounter)
  /\ bodies' = Append(bodies, chunk)
  /\ requestCounter' = IF "ok" \in exitPaths THEN requestCounter + 1 ELSE requestCounter
  /\ chunk' = <<>>
  /\ prodPc' = "read"
  /\ UNCHANGED <<posts, exitPaths>>
  /\ UNCHANGED <<dialVars, delivered, callerVars, pipeVars>>
  /\ UNCHANGED notSplit

\* <-requestsLimiter.Wait(); url := uploadUrl + FormatInt(requestCounter);
\* requestCounter += 1; go func() {...}()
ProducerLaunch ==
  /\ prodPc = "wait"
  /\ requestsLimiter > 0
  /\ requestsLimiter' = requestsLimiter - 1
  /\ uploaders' = uploaders \cup {[seq |-> requestCounter, body |-> chunk, pc |-> "build"]}
  /\ launched' = Append(launched, requestCounter)
  /\ bodies' = Append(bodies, chunk)
  /\ requestCounter' = requestCounter + 1
  /\ chunk' = <<>>
  /\ prodPc' = "read"
  /\ UNCHANGED <<posts, exitPaths>>
  /\ UNCHANGED <<dialVars, delivered, callerVars, pipeVars>>
  /\ UNCHANGED notSplit

\* UploaderExit with Signal() called on the success path only
UploaderExit_LeakOnError(u, outcome) ==
  /\ uploaders' = uploaders \ {u}
  /\ requestsLimiter' = IF outcome = "ok" THEN requestsLimiter + 1 ELSE requestsLimiter
  /\ exitPaths' = exitPaths \cup {outcome}

\* the uploader returns: defer requestsLimiter.Signal()
UploaderExit(u, outcome) ==
  /\ uploaders' = uploaders \ {u}
  /\ requestsLimiter' = requestsLimiter + 1
  /\ exitPaths' = exitPaths \cup {outcome}

\* UploaderBuild with chunk declared outside the producer's loop: the uploader
\* reads the producer's variable when it builds the request
UploaderBuild_SharedChunk(u) ==
  /\ u \in uploaders
  /\ u.pc = "build"
  /\ \/ /\ UploaderExit(u, "build failed")
        /\ UNCHANGED posts
     \/ /\ uploaders' = (uploaders \ {u}) \cup {[u EXCEPT !.pc = "do"]}
        /\ posts' = posts \cup {[seq |-> u.seq, body |-> chunk]}
        /\ UNCHANGED <<requestsLimiter, exitPaths>>
  /\ UNCHANGED <<dialVars, delivered, callerVars, pipeVars, prodVars>>
  /\ UNCHANGED notSplit

\* req, err := http.NewRequest("POST", url, body); on success the request is
\* handed to httpClient.Do
UploaderBuild(u) ==
  /\ u \in uploaders
  /\ u.pc = "build"
  /\ \/ /\ UploaderExit(u, "build failed")
        /\ UNCHANGED posts
     \/ /\ uploaders' = (uploaders \ {u}) \cup {[u EXCEPT !.pc = "do"]}
        /\ posts' = posts \cup {[seq |-> u.seq, body |-> u.body]}
        /\ UNCHANGED <<requestsLimiter, exitPaths>>
  /\ UNCHANGED <<dialVars, delivered, callerVars, pipeVars, prodVars>>
  /\ UNCHANGED notSplit

\* resp, err := httpClient.Do(req): a transport error, or a response whose
\* status is 200 or not; every outcome ends the uploader
UploaderDo(u) ==
  /\ u \in uploaders
  /\ u.pc = "do"
  /\ \E outcome \in {"transport error", "bad status", "ok"} : UploaderExit(u, outcome)
  /\ UNCHANGED posts
  /\ UNCHANGED <<dialVars, delivered, callerVars, pipeVars, prodVars>>
  /\ UNCHANGED notSplit

SplitNext ==
  \/ DialNewRequest
  \/ DialDo
  \/ DialCheckStatus
  \/ DialLaunch
  \/ DialReadAck
  \/ ConnRead
  \/ \E n \in WriteLens : Write(n)
  \/ Flush
  \/ Close
  \/ ProducerRead
  \/ ProducerLaunch
  \/ \E u \in uploaders : UploaderBuild(u)
  \/ \E u \in uploaders : UploaderDo(u)

(***************************************************************************)
(* WireGuard inbound: Server.forwardConnection.                            *)
(***************************************************************************)
\* plcy.Timeouts of policy level 0, in ticks of the model's clock
ConnectionIdle == 3
UplinkOnly == 1
DownlinkOnly == 2

FwdInit ==
  /\ fPc = "start"
  /\ linkNil = FALSE
  /\ ctxDone = FALSE
  /\ cancelBy = "none"
  /\ timeout = 0
  /\ idle = 0
  /\ sinceTransport = 0
  /\ reqPc = "idle"
  /\ respPc = "idle"
  /\ writerClosed = FALSE
  /\ interrupted = FALSE
  /\ connClosed = FALSE
  /\ procCtxDone = FALSE
  /\ ctxParent = "none"

\* core.ToBackgroundDetachedContext(c): a context that keeps the session values
\* of c and whose parent is the background context
Detached(c) == "background"

\* signal.CancelAfterInactivity / ActivityTimer.SetTimeout: the timer is set to
\* timeout t and rearmed
SetTimeout(t) ==
  /\ timeout' = t
  /\ idle' = 0

\* ActivityTimer.Update: the deadline is rearmed
Update == idle' = 0 /\ UNCHANGED timeout

\* the timer runs from its creation until the context is done
TimerRunning == fPc \in {"timer", "run"} /\ ~ctxDone

\* FwdStart with the flow's context derived from the context passed to Process
FwdStart_InboundParent ==
  /\ fPc = "start"
  /\ \E dispatcherNil \in BOOLEAN :
       IF dispatcherNil
       THEN /\ fPc' = "dropped"
            /\ UNCHANGED <<timerVars, ctxParent, ctxDone, cancelBy>>
       ELSE /\ fPc' = "timer"
            /\ ctxParent' = "process"
            /\ ctxDone' = procCtxDone
            /\ cancelBy' = IF procCtxDone THEN "parent" ELSE cancelBy
            /\ SetTimeout(ConnectionIdle)
  /\ UNCHANGED <<linkNil, sinceTransport, halfVars, interrupted, connClosed,
                 procCtxDone>>
  /\ UNCHANGED notFwd

\* if info.dispatcher == nil { log; return }; otherwise defer conn.Close(),
\* ctx, cancel := context.WithCancel(...), timer := CancelAfterInactivity(ctx,
\* cancel, plcy.Timeouts.ConnectionIdle)
FwdStart ==
  /\ fPc = "start"
  /\ \E dispatcherNil \in BOOLEAN :
       IF dispatcherNil
       THEN /\ fPc' = "dropped"
            /\ UNCHANGED <<timerVars, ctxParent>>
       ELSE /\ fPc' = "timer"
            /\ ctxParent' = Detached(Detached("process"))
            /\ SetTimeout(ConnectionIdle)
  /\ UNCHANGED <<linkNil, ctxDone, cancelBy, sinceTransport, halfVars,
                 interrupted, connClosed, procCtxDone>>
  /\ UNCHANGED notFwd

\* link, err := info.dispatcher.Dispatch(ctx, dest); an error is logged and
\* execution goes on: task.Close(link.Writer) dereferences link, and task.Run
\* starts the two halves
FwdDispatch ==
  /\ fPc = "timer"
  /\ \E err \in BOOLEAN :
       IF err
       THEN /\ linkNil' = TRUE
            /\ fPc' = "panic"
            /\ UNCHANGED <<reqPc, respPc>>
       ELSE /\ linkNil' = FALSE
            /\ fPc' = "run"
            /\ reqPc' = "copy"
            /\ respPc' = "copy"
  /\ UNCHANGED <<ctxDone, cancelBy, timerVars, sinceTransport, writerClosed,
                 interrupted, connClosed>>
  /\ UNCHANGED inboundVars
  /\ UNCHANGED notFwd

\* RequestTransport with the buf.UpdateActivity(timer) option left out of Copy
RequestTransport_NoUpdate ==
  /\ reqPc = "copy"
  /\ ~connClosed /\ ~interrupted
  /\ sinceTransport' = 0
  /\ UNCHANGED <<fPc, linkNil, ctxDone, cancelBy, timerVars, halfVars, interrupted,
                 connClosed>>
  /\ UNCHANGED inboundVars
  /\ UNCHANGED notFwd

\* buf.Copy(buf.NewReader(conn), link.Writer, buf.UpdateActivity(timer)): one
\* buffer is transported and the timer updated
RequestTransport ==
  /\ reqPc = "copy"
  /\ ~connClosed /\ ~interrupted
  /\ Update
  /\ sinceTransport' = 0
  /\ UNCHANGED <<fPc, linkNil, ctxDone, cancelBy, halfVars, interrupted, connClosed>>
  /\ UNCHANGED inboundVars
  /\ UNCHANGED notFwd

\* buf.Copy(link.Reader, buf.NewWriter(conn), buf.UpdateActivity(timer))
ResponseTransport ==
  /\ respPc = "copy"
  /\ ~connClosed /\ ~interrupted
  /\ Update
  /\ sinceTransport' = 0
  /\ UNCHANGED <<fPc, linkNil, ctxDone, cancelBy, halfVars, interrupted, connClosed>>
  /\ UNCHANGED inboundVars
  /\ UNCHANGED notFwd

\* RequestDone with the deferred SetTimeout given UplinkOnly
RequestDone_UplinkOnly ==
  /\ reqPc = "copy"
  /\ \E ok \in BOOLEAN :
       /\ ok => ~connClosed /\ ~interrupted
       /\ reqPc' = IF ok THEN "done" ELSE "failed"
  /\ SetTimeout(UplinkOnly)
  /\ UNCHANGED <<fPc, linkNil, ctxDone, cancelBy, sinceTransport, respPc,
                 writerClosed, interrupted, connClosed>>
  /\ UNCHANGED inboundVars
  /\ UNCHANGED notFwd

\* requestDone returns: defer timer.SetTimeout(plcy.Timeouts.DownlinkOnly); the
\* copy ended at the end of conn's stream (nil) or with an error
RequestDone ==
  /\ reqPc = "copy"
  /\ \E ok \in BOOLEAN :
       /\ ok => ~connClosed /\ ~interrupted
       /\ reqPc' = IF ok THEN "done" ELSE "failed"
  /\ SetTimeout(DownlinkOnly)
  /\ UNCHANGED <<fPc, linkNil, ctxDone, cancelBy, sinceTransport, respPc,
                 writerClosed, interrupted, connClosed>>
  /\ UNCHANGED inboundVars
  /\ UNCHANGED notFwd

\* task.OnSuccess(requestDone, task.Close(link.Writer))
RequestClose ==
  /\ reqPc = "done"
  /\ reqPc' = "closed"
  /\ writerClosed' = TRUE
  /\ UNCHANGED <<fPc, linkNil, ctxDone, cancelBy, timerVars, sinceTransport,
                 respPc, interrupted, connClosed>>
  /\ UNCHANGED inboundVars
  /\ UNCHANGED notFwd

\* responseDone returns: defer timer.SetTimeout(plcy.Timeouts.UplinkOnly)
ResponseDone ==
  /\ respPc = "copy"
  /\ \E ok \in BOOLEAN :
       /\ ok => ~connClosed /\ ~interrupted
       /\ respPc' = IF ok THEN "done" ELSE "failed"
  /\ SetTimeout(UplinkOnly)
  /\ UNCHANGED <<fPc, linkNil, ctxDone, cancelBy, sinceTransport, reqPc,
                 writerClosed, interrupted, connClosed>>
  /\ UNCHANGED inboundVars
  /\ UNCHANGED notFwd

\* task.Run returns nil when both halves have succeeded, a half's error, or
\* ctx.Err() when the context is done; with both halves succeeded and the
\* context done its select takes either
RunResult ==
  IF reqPc = "failed" \/ respPc = "failed" THEN {"error"}
  ELSE IF reqPc = "closed" /\ respPc = "done"
  THEN IF ctxDone THEN {"nil", "error"} ELSE {"nil"}
  ELSE IF ctxDone THEN {"error"}
  ELSE {}

\* if err := task.Run(...); err != nil { common.Interrupt(link.Reader);
\* common.Interrupt(link.Writer); log; return }; then the deferred cancel() and
\* conn.Close()
FwdReturn ==
  /\ fPc = "run"
  /\ \E r \in RunResult :
       interrupted' = (r = "error")
  /\ fPc' = "returned"
  /\ ctxDone' = TRUE
  /\ cancelBy' = IF ctxDone THEN cancelBy ELSE "defer"
  /\ connClosed' = TRUE
  /\ UNCHANGED <<linkNil, timerVars, sinceTransport, halfVars>>
  /\ UNCHANGED inboundVars
  /\ UNCHANGED notFwd

\* time passes; the timer fires no later than its deadline
Tick ==
  /\ TimerRunning
  /\ idle < timeout
  /\ idle' = idle + 1
  /\ sinceTransport' = sinceTransport + 1
  /\ UNCHANGED <<fPc, linkNil, ctxDone, cancelBy, timeout, halfVars,
                 interrupted, connClosed>>
  /\ UNCHANGED inboundVars
  /\ UNCHANGED notFwd

\* the inactivity timer fires: cancel()
TimerFire ==
  /\ TimerRunning
  /\ idle >= timeout
  /\ ctxDone' = TRUE
  /\ cancelBy' = "timer"
  /\ UNCHANGED <<fPc, linkNil, timerVars, sinceTransport, halfVars,
                 interrupted, connClosed>>
  /\ UNCHANGED inboundVars
  /\ UNCHANGED notFwd

\* the context passed to Process is cancelled, or Process has returned and its
\* caller cancels it; a context derived from it is cancelled with it
InboundCancel ==
  /\ ~procCtxDone
  /\ procCtxDone' = TRUE
  /\ IF ctxParent = "process" /\ ~ctxDone
     THEN /\ ctxDone' = TRUE
          /\ cancelBy' = "parent"
     ELSE UNCHANGED <<ctxDone, cancelBy>>
  /\ UNCHANGED <<fPc, linkNil, timerVars, sinceTransport, halfVars, interrupted,
                 connClosed, ctxParent>>
  /\ UNCHANGED notFwd

FwdNext ==
  \/ InboundCancel
  \/ FwdStart
  \/ FwdDispatch
  \/ RequestTransport
  \/ ResponseTransport
  \/ RequestDone
  \/ RequestClose
  \/ ResponseDone
  \/ FwdReturn
  \/ Tick
  \/ TimerFire

(***************************************************************************)
(* Package encoding: the length-prefixed packet codec.                     *)
(***************************************************************************)
\* buf.Size, the capacity of one buf.Buffer
BufSize == 8192

\* the most buffers in one multi-buffer handed to MultiLengthPacketWriter
MaxBufs == 3
\* the most packets written to one stream
MaxPackets == 2

\* the conversion byte(x) of an int32
ByteOf(x) == x % 256

\* buffer number k of a multi-buffer, n bytes long
Fill(n, k) == [i \in 1..n |-> (16 * k + i) % 256]

\* the multi-buffer whose buffers have the lengths lens
MakeMB(lens) == [k \in 1..Len(lens) |-> Fill(lens[k], k)]

RECURSIVE Concat(_)
\* the bytes of a multi-buffer, in order
Concat(mb) == IF mb = <<>> THEN <<>> ELSE Head(mb) \o Concat(Tail(mb))

RECURSIVE MBLen(_)
\* mb.Len()
MBLen(mb) == IF mb = <<>> THEN 0 ELSE Len(Head(mb)) + MBLen(Tail(mb))

\* Buffer.Write on a buffer holding eb: the bytes that fit its capacity are copied
BufWrite(eb, data) == SubSeq(eb \o data, 1, Min(BufSize, Len(eb) + Len(data)))

\* the lengths of the multi-buffers given to LengthPacketWriter: every buffer is
\* at most BufSize long and the total is at most 65535
LPInputs ==
  { <<0>>, <<1>>, <<2, 0, 253>>, <<256>>, <<BufSize, 1>>,
    <<BufSize, BufSize, BufSize, BufSize, BufSize, BufSize, BufSize, BufSize - 1>> }

\* the buffer lengths given to MultiLengthPacketWriter
MLLens == {0, 1, 256, BufSize - 2, BufSize - 1, BufSize}

RECURSIVE SeqsUpTo(_, _)
\* the sequences over S of length at most n
SeqsUpTo(S, n) ==
  IF n = 0 THEN {<<>>}
  ELSE LET shorter == SeqsUpTo(S, n - 1)
       IN shorter \cup {Append(q, x) : q \in shorter, x \in S}

LpInit ==
  /\ lpwCache = <<>>
  /\ lpwRet = "none"
  /\ pktStream = <<>>
  /\ pktClosed = FALSE
  /\ pktSent = <<>>
  /\ pktRead = <<>>
  /\ pktErr = ""

MlInit ==
  /\ mlCalled = FALSE
  /\ mlIn = <<>>
  /\ mlOut = <<>>
  /\ mlRet = "none"

\* the header with the 16-bit low byte written first
LPHeader_Swapped(length) == <<ByteOf(length), ByteOf(length \div 256)>>

\* byte(length>>8), byte(length)
LPHeader(length) == <<ByteOf(length \div 256), ByteOf(length)>>

\* LengthPacketWriter.WriteMultiBuffer on the multi-buffer with lengths lens:
\* nothing for an empty one; otherwise the header and every buffer are appended
\* to the cache, the cache is written at once and then reset
LPWrite(lens) ==
  /\ ~pktClosed
  /\ Len(pktSent) < MaxPackets
  /\ LET mb == MakeMB(lens)
         length == MBLen(mb)
         cache == lpwCache \o LPHeader(length) \o Concat(mb)
     IN IF length = 0
        THEN /\ lpwRet' = "nil"
             /\ UNCHANGED <<lpwCache, pktStream, pktSent>>
        ELSE /\ lpwCache' = <<>>
             /\ \E ok \in BOOLEAN :
                  IF ok
                  THEN /\ pktStream' = pktStream \o cache
                       /\ pktSent' = Append(pktSent, lens)
                       /\ lpwRet' = "nil"
                  ELSE /\ lpwRet' = "failed to write a packet"
                       /\ UNCHANGED <<pktStream, pktSent>>
  /\ UNCHANGED <<pktClosed, pktRead, pktErr>>
  /\ UNCHANGED notLp

\* the writing side ends the stream
LPCloseStream ==
  /\ ~pktClosed
  /\ pktClosed' = TRUE
  /\ UNCHANGED <<lpwCache, lpwRet, pktStream, pktSent, pktRead, pktErr>>
  /\ UNCHANGED notLp

RECURSIVE ReadChunks(_, _)
\* the loop of ReadMultiBuffer: buffers of at most BufSize bytes until length
\* bytes are read
ReadChunks(data, length) ==
  IF length > 0
  THEN LET size == Min(length, BufSize)
       IN <<SubSeq(data, 1, size)>> \o ReadChunks(Drop(data, size), length - size)
  ELSE <<>>

\* LengthPacketReader.ReadMultiBuffer: io.ReadFull of the two length bytes, then
\* the payload; a read blocks until its bytes arrive or the stream ends
LPRead ==
  /\ pktErr = ""
  /\ IF Len(pktStream) < 2
     THEN /\ pktClosed
          /\ pktErr' = "failed to read packet length"
          /\ pktStream' = <<>>
          /\ UNCHANGED pktRead
     ELSE LET length == pktStream[1] * 256 + pktStream[2]
              data == Drop(pktStream, 2)
          IN IF Len(data) >= length
             THEN /\ pktRead' = Append(pktRead, ReadChunks(data, length))
                  /\ pktStream' = Drop(data, length)
                  /\ UNCHANGED pktErr
             ELSE /\ pktClosed
                  /\ pktErr' = "failed to read packet payload"
                  /\ pktStream' = <<>>
                  /\ UNCHANGED pktRead
  /\ UNCHANGED <<lpwCache, lpwRet, pktClosed, pktSent>>
  /\ UNCHANGED notLp

LpNext ==
  \/ \E lens \in LPInputs : LPWrite(lens)
  \/ LPCloseStream
  \/ LPRead

\* the test of the loop without the check of length+2 against buf.Size
MLSkip_NoSizeCheck(length) == length = 0

\* if length == 0 || length+2 > buf.Size { continue }
MLSkip(length) == length = 0 \/ length + 2 > BufSize

RECURSIVE MLFrames(_)
\* the loop of MultiLengthPacketWriter.WriteMultiBuffer: mb2Write
MLFrames(mb) ==
  IF mb = <<>> THEN <<>>
  ELSE LET b == Head(mb)
           length == Len(b)
           eb == BufWrite(<<ByteOf(length \div 256), ByteOf(length)>>, b)
       IN IF MLSkip(length)
          THEN MLFrames(Tail(mb))
          ELSE <<eb>> \o MLFrames(Tail(mb))

\* MultiLengthPacketWriter.WriteMultiBuffer: if mb2Write.IsEmpty() return nil,
\* else return w.Writer.WriteMultiBuffer(mb2Write). The writer keeps no state
\* between calls, so one call is modelled
MLWrite(lens) ==
  /\ ~mlCalled
  /\ mlCalled' = TRUE
  /\ mlIn' = lens
  /\ LET mb2Write == MLFrames(MakeMB(lens))
     IN IF mb2Write = <<>>
        THEN /\ mlOut' = <<>>
             /\ mlRet' = "nil"
        ELSE /\ mlOut' = <<mb2Write>>
             /\ mlRet' \in {"nil", "error"}
  /\ UNCHANGED notMl

MlNext == \E lens \in SeqsUpTo(MLLens, MaxBufs) : MLWrite(lens)

(***************************************************************************)
(* Package encoding: the Addons record.                                    *)
(***************************************************************************)
\* a sub-record that is nil has present = FALSE and zero fields
NoPadding == [present |-> FALSE, RegularMin |-> 0, RegularMax |-> 0,
              LongMin |-> 0, LongMax |-> 0]

NoDelay == [present |-> FALSE, IsRandom |-> FALSE, MinMillis |-> 0, MaxMillis |-> 0]

NoScheduler == [present |-> FALSE, TimeoutMillis |-> 0]

\* new(Addons)
EmptyAddons ==
  [Flow |-> <<>>, Seed |-> <<>>, Mode |-> 0, Duration |-> <<>>,
   Padding |-> NoPadding, Delay |-> NoDelay, Scheduler |-> NoScheduler]

\* vless.XRV, "xtls-rprx-vision", as bytes
XRV == <<120, 116, 108, 115, 45, 114, 112, 114, 120, 45, 118, 105, 115, 105, 111, 110>>

\* the Duration "0-8" as bytes
Duration08 == <<48, 45, 56>>

\* the values PopulateSeed sets
SeedPadding == [present |-> TRUE, RegularMin |-> 0, RegularMax |-> 256,
                LongMin |-> 900, LongMax |-> 1400]

SeedDelay == [present |-> TRUE, IsRandom |-> TRUE, MinMillis |-> 100, MaxMillis |-> 500]

SeedScheduler == [present |-> TRUE, TimeoutMillis |-> 600]

\* SeedMode_PaddingPlusDelay
PaddingPlusDelay == 2

(***************************************************************************)
(* The protobuf wire format of Addons (proto.Marshal, proto.Unmarshal).    *)
(***************************************************************************)
RECURSIVE Varint(_)
\* a base-128 varint
Varint(n) == IF n < 128 THEN <<n>> ELSE <<128 + (n % 128)>> \o Varint(n \div 128)

\* a varint field; the zero value is not written
VarintField(num, v) == IF v = 0 THEN <<>> ELSE <<8 * num>> \o Varint(v)

\* a string or bytes field; the empty value is not written
BytesField(num, v) == IF v = <<>> THEN <<>> ELSE <<8 * num + 2>> \o Varint(Len(v)) \o v

\* a sub-record field; nil is not written, an empty sub-record is
MessageField(num, present, body) ==
  IF present THEN <<8 * num + 2>> \o Varint(Len(body)) \o body ELSE <<>>

BoolNum(b) == IF b THEN 1 ELSE 0

MarshalPadding(p) ==
  VarintField(1, p.RegularMin) \o VarintField(2, p.RegularMax)
    \o VarintField(3, p.LongMin) \o VarintField(4, p.LongMax)

MarshalDelay(d) ==
  VarintField(1, BoolNum(d.IsRandom)) \o VarintField(2, d.MinMillis)
    \o VarintField(3, d.MaxMillis)

MarshalScheduler(c) == VarintField(1, c.TimeoutMillis)

\* proto.Marshal(addons)
Marshal(a) ==
  BytesField(1, a.Flow) \o BytesField(2, a.Seed) \o VarintField(3, a.Mode)
    \o BytesField(4, a.Duration)
    \o MessageField(5, a.Padding.present, MarshalPadding(a.Padding))
    \o MessageField(6, a.Delay.present, MarshalDelay(a.Delay))
    \o MessageField(7, a.Scheduler.present, MarshalScheduler(a.Scheduler))

RECURSIVE ParseVarint(_)
\* reads a varint: [ok, val, rest]
ParseVarint(data) ==
  IF data = <<>> THEN [ok |-> FALSE, val |-> 0, rest |-> <<>>]
  ELSE IF Head(data) < 128 THEN [ok |-> TRUE, val |-> Head(data), rest |-> Tail(data)]
  ELSE LET r == ParseVarint(Tail(data))
       IN [ok |-> r.ok, val |-> (Head(data) - 128) + 128 * r.val, rest |-> r.rest]

\* reads one field: [ok, num, wire, val, bytes, rest]
ParseField(data) ==
  LET tag == ParseVarint(data)
      num == tag.val \div 8
      wire == tag.val % 8
      bad == [ok |-> FALSE, num |-> 0, wire |-> 0, val |-> 0, bytes |-> <<>>, rest |-> <<>>]
  IN IF ~tag.ok THEN bad
     ELSE IF wire = 0
     THEN LET v == ParseVarint(tag.rest)
          IN IF v.ok
             THEN [ok |-> TRUE, num |-> num, wire |-> 0, val |-> v.val,
                   bytes |-> <<>>, rest |-> v.rest]
             ELSE bad
     ELSE IF wire = 2
     THEN LET n == ParseVarint(tag.rest)
          IN IF n.ok /\ Len(n.rest) >= n.val
             THEN [ok |-> TRUE, num |-> num, wire |-> 2, val |-> 0,
                   bytes |-> SubSeq(n.rest, 1, n.val), rest |-> Drop(n.rest, n.val)]
             ELSE bad
     ELSE bad

RECURSIVE UnmarshalPadding(_, _)
\* the fields of a PaddingConfig: [ok, rec]
UnmarshalPadding(data, p) ==
  IF data = <<>> THEN [ok |-> TRUE, rec |-> p]
  ELSE LET f == ParseField(data)
       IN IF ~f.ok \/ f.wire # 0 \/ f.num \notin 1..4 THEN [ok |-> FALSE, rec |-> p]
          ELSE UnmarshalPadding(f.rest,
                 CASE f.num = 1 -> [p EXCEPT !.RegularMin = f.val]
                   [] f.num = 2 -> [p EXCEPT !.RegularMax = f.val]
                   [] f.num = 3 -> [p EXCEPT !.LongMin = f.val]
                   [] f.num = 4 -> [p EXCEPT !.LongMax = f.val])

RECURSIVE UnmarshalDelay(_, _)
\* the fields of a DelayConfig: [ok, rec]
UnmarshalDelay(data, d) ==
  IF data = <<>> THEN [ok |-> TRUE, rec |-> d]
  ELSE LET f == ParseField(data)
       IN IF ~f.ok \/ f.wire # 0 \/ f.num \notin 1..3 THEN [ok |-> FALSE, rec |-> d]
          ELSE UnmarshalDelay(f.rest,
                 CASE f.num = 1 -> [d EXCEPT !.IsRandom = (f.val # 0)]
                   [] f.num = 2 -> [d EXCEPT !.MinMillis = f.val]
                   [] f.num = 3 -> [d EXCEPT !.MaxMillis = f.val])

RECURSIVE UnmarshalScheduler(_, _)
\* the fields of a SchedulerConfig: [ok, rec]
UnmarshalScheduler(data, c) ==
  IF data = <<>> THEN [ok |-> TRUE, rec |-> c]
  ELSE LET f == ParseField(data)
       IN IF ~f.ok \/ f.wire # 0 \/ f.num # 1 THEN [ok |-> FALSE, rec |-> c]
          ELSE UnmarshalScheduler(f.rest, [c EXCEPT !.TimeoutMillis = f.val])

RECURSIVE Unmarshal(_, _)
\* proto.Unmarshal(data, addons): [ok, rec]
Unmarshal(data, a) ==
  IF data = <<>> THEN [ok |-> TRUE, rec |-> a]
  ELSE LET f == ParseField(data)
           wireOf == [n \in 1..7 |-> IF n = 3 THEN 0 ELSE 2]
       IN IF ~f.ok \/ f.num \notin 1..7 THEN [ok |-> FALSE, rec |-> a]
          ELSE IF f.wire # wireOf[f.num] THEN [ok |-> FALSE, rec |-> a]
          ELSE IF f.num = 1 THEN Unmarshal(f.rest, [a EXCEPT !.Flow = f.bytes])
          ELSE IF f.num = 2 THEN Unmarshal(f.rest, [a EXCEPT !.Seed = f.bytes])
          ELSE IF f.num = 3 THEN Unmarshal(f.rest, [a EXCEPT !.Mode = f.val])
          ELSE IF f.num = 4 THEN Unmarshal(f.rest, [a EXCEPT !.Duration = f.bytes])
          ELSE IF f.num = 5
          THEN LET r == UnmarshalPadding(f.bytes, [a.Padding EXCEPT !.present = TRUE])
               IN IF r.ok THEN Unmarshal(f.rest, [a EXCEPT !.Padding = r.rec])
                  ELSE [ok |-> FALSE, rec |-> a]
          ELSE IF f.num = 6
          THEN LET r == UnmarshalDelay(f.bytes, [a.Delay EXCEPT !.present = TRUE])
               IN IF r.ok THEN Unmarshal(f.rest, [a EXCEPT !.Delay = r.rec])
                  ELSE [ok |-> FALSE, rec |-> a]
          ELSE LET r == UnmarshalScheduler(f.bytes, [a.Scheduler EXCEPT !.present = TRUE])
               IN IF r.ok THEN Unmarshal(f.rest, [a EXCEPT !.Scheduler = r.rec])
                  ELSE [ok |-> FALSE, rec |-> a]

(***************************************************************************)
(* EncodeHeaderAddons and DecodeHeaderAddons.                              *)
(***************************************************************************)
\* the lengths of the Seed values tried
SeedLens == {0, 1, 252, 253, 300}

\* the addons given to EncodeHeaderAddons
AddonInputs ==
  [Flow : {<<>>, XRV, <<120>>},
   Seed : {Fill(n, 0) : n \in SeedLens},
   Mode : {0, PaddingPlusDelay},
   Duration : {<<>>, Duration08},
   Padding : {NoPadding, [NoPadding EXCEPT !.present = TRUE], SeedPadding},
   Delay : {NoDelay, SeedDelay},
   Scheduler : {NoScheduler, SeedScheduler}]

\* the state of this subsystem when a specification does not use it
AdOff ==
  /\ adPc = "input"
  /\ adIn = EmptyAddons
  /\ adWire = <<>>
  /\ adEncErr = ""
  /\ adOut = EmptyAddons
  /\ adDecErr = ""
  /\ adLeft = <<>>
  /\ adUnmarshal = FALSE

AdInit ==
  /\ adPc = "input"
  /\ adIn \in AddonInputs
  /\ adWire = <<>>
  /\ adEncErr = ""
  /\ adOut = EmptyAddons
  /\ adDecErr = ""
  /\ adLeft = <<>>
  /\ adUnmarshal = FALSE

\* EncodeHeaderAddons(buffer, addons) on an empty buffer
EncodeHeaderAddons ==
  /\ adPc = "input"
  /\ adPc' = "encoded"
  /\ IF adIn.Flow = XRV \/ Len(adIn.Seed) > 0
     THEN LET bytes == Marshal(adIn)
          IN adWire' = BufWrite(<<ByteOf(Len(bytes))>>, bytes)
     ELSE adWire' = <<0>>
  /\ adEncErr' = ""
  /\ UNCHANGED <<adIn, adOut, adDecErr, adLeft, adUnmarshal>>
  /\ UNCHANGED notAd

\* DecodeHeaderAddons(buffer, reader) on a reader that holds what
\* EncodeHeaderAddons wrote and then ends
DecodeHeaderAddons ==
  /\ adPc = "encoded"
  /\ adEncErr = ""
  /\ adPc' = "decoded"
  /\ IF adWire = <<>>
     THEN /\ adDecErr' = "failed to read addons protobuf length"
          /\ adLeft' = <<>>
          /\ UNCHANGED <<adOut, adUnmarshal>>
     ELSE LET length == adWire[1]
              rest == Tail(adWire)
          IN IF length = 0
             THEN /\ adOut' = EmptyAddons
                  /\ adDecErr' = ""
                  /\ adLeft' = rest
                  /\ UNCHANGED adUnmarshal
             ELSE IF Len(rest) < length
             THEN /\ adDecErr' = "failed to read addons protobuf value"
                  /\ adLeft' = <<>>
                  /\ UNCHANGED <<adOut, adUnmarshal>>
             ELSE LET r == Unmarshal(SubSeq(rest, 1, length), EmptyAddons)
                  IN /\ adUnmarshal' = TRUE
                     /\ adLeft' = Drop(rest, length)
                     /\ IF r.ok
                        THEN adOut' = r.rec /\ adDecErr' = ""
                        ELSE /\ adDecErr' = "failed to unmarshal addons protobuf value"
                             /\ UNCHANGED adOut
  /\ UNCHANGED <<adIn, adWire, adEncErr>>
  /\ UNCHANGED notAd

AdNext ==
  \/ EncodeHeaderAddons
  \/ DecodeHeaderAddons

(***************************************************************************)
(* CheckSeed.                                                              *)
(***************************************************************************)
\* the values the compared numeric fields take
FieldVals == {0, 1}

\* responseAddons: every combination of the compared fields
CsInputsB ==
  [Flow : {<<>>},
   Seed : {<<>>, <<1>>},
   Mode : {0, PaddingPlusDelay},
   Duration : {<<>>, Duration08},
   Padding : {NoPadding} \cup [present : {TRUE}, RegularMin : FieldVals,
                RegularMax : FieldVals, LongMin : FieldVals, LongMax : FieldVals],
   Delay : {NoDelay} \cup [present : {TRUE}, IsRandom : BOOLEAN,
                MinMillis : FieldVals, MaxMillis : FieldVals],
   Scheduler : {NoScheduler} \cup [present : {TRUE}, TimeoutMillis : FieldVals]]

\* requestAddons: no sub-record, empty sub-records, and every field set
CsInputsA ==
  { EmptyAddons,
    [EmptyAddons EXCEPT !.Padding.present = TRUE, !.Delay.present = TRUE,
                        !.Scheduler.present = TRUE],
    [Flow |-> <<>>, Seed |-> <<1>>, Mode |-> PaddingPlusDelay, Duration |-> Duration08,
     Padding |-> [present |-> TRUE, RegularMin |-> 1, RegularMax |-> 1,
                  LongMin |-> 1, LongMax |-> 1],
     Delay |-> [present |-> TRUE, IsRandom |-> TRUE, MinMillis |-> 1, MaxMillis |-> 1],
     Scheduler |-> [present |-> TRUE, TimeoutMillis |-> 1]] }

\* the state of this subsystem when a specification does not use it
CsOff ==
  /\ csA = EmptyAddons
  /\ csB = EmptyAddons
  /\ csRet = "none"

CsInit ==
  /\ csA \in CsInputsA
  /\ csB \in CsInputsB
  /\ csRet = "none"

\* the Padding comparison without LongMax
PaddingDiffers_NoLongMax(p, q) ==
  \/ p.RegularMin # q.RegularMin
  \/ p.RegularMax # q.RegularMax
  \/ p.LongMin # q.LongMin

\* the condition of the inner if on Padding
PaddingDiffers(p, q) ==
  \/ p.RegularMin # q.RegularMin
  \/ p.RegularMax # q.RegularMax
  \/ p.LongMin # q.LongMin
  \/ p.LongMax # q.LongMax

\* the condition of the inner if on Delay
DelayDiffers(p, q) ==
  \/ p.IsRandom # q.IsRandom
  \/ p.MinMillis # q.MinMillis
  \/ p.MaxMillis # q.MaxMillis

\* CheckSeed(requestAddons, responseAddons): "nil" or the error
CheckSeed(req, resp) ==
  IF req.Seed # resp.Seed THEN "Seed bytes not match"
  ELSE IF req.Mode # resp.Mode THEN "Mode not match"
  ELSE IF req.Duration # resp.Duration THEN "Duration not match"
  ELSE IF req.Padding.present /\ resp.Padding.present
          /\ PaddingDiffers(req.Padding, resp.Padding)
  THEN "Padding not match"
  ELSE IF ~(req.Padding.present /\ resp.Padding.present)
          /\ (req.Padding.present \/ resp.Padding.present)
  THEN "Padding of one is nil but the other is not nil"
  ELSE IF req.Delay.present /\ resp.Delay.present
          /\ DelayDiffers(req.Delay, resp.Delay)
  THEN "Delay not match"
  ELSE IF ~(req.Delay.present /\ resp.Delay.present)
          /\ (req.Delay.present \/ resp.Delay.present)
  THEN "Delay of one is nil but the other is not nil"
  ELSE IF req.Scheduler.present /\ resp.Scheduler.present
          /\ req.Scheduler.TimeoutMillis # resp.Scheduler.TimeoutMillis
  THEN "Scheduler not match"
  ELSE IF ~(req.Scheduler.present /\ resp.Scheduler.present)
          /\ (req.Scheduler.present \/ resp.Scheduler.present)
  THEN "Scheduler of one is nil but the other is not nil"
  ELSE "nil"

\* a call CheckSeed(csA, csB), or with the two records exchanged
CheckSeedCall ==
  /\ csRet = "none"
  /\ \E swap \in BOOLEAN :
       IF swap
       THEN /\ csA' = csB
            /\ csB' = csA
            /\ csRet' = CheckSeed(csB, csA)
       ELSE /\ csRet' = CheckSeed(csA, csB)
            /\ UNCHANGED <<csA, csB>>
  /\ UNCHANGED notCs

CsNext == CheckSeedCall

(***************************************************************************)
(* WireGuard inbound: Server.Process and the bind's readQueue.             *)
(***************************************************************************)
\* the number of payloads conn delivers to one Process call
MaxPayloads == 3
\* the number of elements the device's workers put in the readQueue
MaxElems == 3

\* the lengths of the payload buffers read from conn
PayloadLens == {0, 1, 2}

\* the sizes of the elements' buffers; a device buffer holds any payload
BuffLens == {2, 3}

\* the errors conn's packet reader ends with
ReaderErrors == {"EOF", "closed pipe"}

ProcInit ==
  /\ procPc = "start"
  /\ procRet = "none"
  /\ eofFrom = "none"
  /\ nepConn = "nil"
  /\ nRead = 0
  /\ mpayload = <<>>
  /\ readQueue = <<>>
  /\ queueClosed = FALSE
  /\ elems = <<>>
  /\ cur = 0
  /\ handoff = <<>>

\* the bind's Receive: a worker of the device puts a pre-allocated element in
\* the readQueue and waits on its waiter
DeviceReceive ==
  /\ ~queueClosed
  /\ Len(elems) < MaxElems
  /\ \E n \in BuffLens :
       elems' = Append(elems, [buff |-> Fill(n, 0), bytes |-> 0, endpoint |-> "none",
                               err |-> "unset", filled |-> FALSE, done |-> 0])
  /\ readQueue' = Append(readQueue, Len(elems) + 1)
  /\ UNCHANGED <<procPc, procRet, eofFrom, nepConn, nRead, mpayload, queueClosed,
                 cur, handoff>>
  /\ UNCHANGED notProc

\* the bind is closed: close(readQueue)
BindClose ==
  /\ ~queueClosed
  /\ queueClosed' = TRUE
  /\ UNCHANGED <<procPc, procRet, eofFrom, nepConn, nRead, mpayload, readQueue,
                 elems, cur, handoff>>
  /\ UNCHANGED notProc

\* s.info = routingInfo{...}; ep, err := ParseEndpoint(...); if err != nil
\* { return err }; nep.conn = conn; reader := buf.NewPacketReader(conn)
ProcStart ==
  /\ procPc = "start"
  /\ \E ok \in BOOLEAN :
       IF ok
       THEN /\ nepConn' = "conn"
            /\ procPc' = "read"
            /\ UNCHANGED procRet
       ELSE /\ procRet' = "parse error"
            /\ procPc' = "returned"
            /\ UNCHANGED nepConn
  /\ UNCHANGED <<eofFrom, nRead, mpayload, readQueue, queueClosed, elems, cur, handoff>>
  /\ UNCHANGED notProc

\* mpayload, err := reader.ReadMultiBuffer(); if err != nil { return err }
ProcRead ==
  /\ procPc = "read"
  /\ \/ \E e \in ReaderErrors :
          /\ procRet' = e
          /\ eofFrom' = IF e = "EOF" THEN "reader" ELSE eofFrom
          /\ procPc' = "returned"
          /\ UNCHANGED <<nRead, mpayload>>
     \/ \E lens \in SeqsUpTo(PayloadLens, 2) :
          /\ Len(lens) >= 1
          /\ nRead + Len(lens) <= MaxPayloads
          /\ mpayload' = [i \in 1..Len(lens) |-> [id |-> nRead + i, len |-> lens[i]]]
          /\ nRead' = nRead + Len(lens)
          /\ procPc' = "recv"
          /\ UNCHANGED <<procRet, eofFrom>>
  /\ UNCHANGED <<nepConn, readQueue, queueClosed, elems, cur, handoff>>
  /\ UNCHANGED notProc

\* v, ok := <-s.bindServer.readQueue; if !ok { return nil }
ProcRecv ==
  /\ procPc = "recv"
  /\ IF readQueue # <<>>
     THEN /\ cur' = Head(readQueue)
          /\ readQueue' = Tail(readQueue)
          /\ procPc' = "fill"
          /\ UNCHANGED procRet
     ELSE /\ queueClosed
          /\ procRet' = "nil"
          /\ procPc' = "returned"
          /\ UNCHANGED <<cur, readQueue>>
  /\ UNCHANGED <<eofFrom, nepConn, nRead, mpayload, queueClosed, elems, handoff>>
  /\ UNCHANGED notProc

\* payload.Read(buff): (0, io.EOF) on an empty payload, else the bytes copied
PayloadRead(payload, buff) ==
  IF payload.len = 0 THEN [i |-> 0, err |-> "EOF"]
  ELSE [i |-> Min(payload.len, Len(buff)), err |-> "nil"]

\* ProcFill without v.endpoint = nep
ProcFill_NoEndpoint ==
  /\ procPc = "fill"
  /\ LET payload == Head(mpayload)
         r == PayloadRead(payload, elems[cur].buff)
     IN elems' = [elems EXCEPT ![cur] =
                    [@ EXCEPT !.buff = Fill(r.i, payload.id) \o Drop(@, r.i),
                              !.bytes = r.i, !.err = r.err, !.filled = TRUE]]
  /\ procPc' = "signal"
  /\ UNCHANGED <<procRet, eofFrom, nepConn, nRead, mpayload, readQueue, queueClosed,
                 cur, handoff>>
  /\ UNCHANGED notProc

\* i, err := payload.Read(v.buff); v.bytes = i; v.endpoint = nep; v.err = err
ProcFill ==
  /\ procPc = "fill"
  /\ LET payload == Head(mpayload)
         r == PayloadRead(payload, elems[cur].buff)
     IN elems' = [elems EXCEPT ![cur] =
                    [@ EXCEPT !.buff = Fill(r.i, payload.id) \o Drop(@, r.i),
                              !.bytes = r.i, !.endpoint = "nep", !.err = r.err,
                              !.filled = TRUE]]
  /\ procPc' = "signal"
  /\ UNCHANGED <<procRet, eofFrom, nepConn, nRead, mpayload, readQueue, queueClosed,
                 cur, handoff>>
  /\ UNCHANGED notProc

\* v.waiter.Done(); if err != nil && errors.Is(err, io.EOF) { nep.conn = nil;
\* return nil }; otherwise the next payload, or the next read
ProcSignal ==
  /\ procPc = "signal"
  /\ elems' = [elems EXCEPT ![cur].done = @ + 1]
  /\ handoff' = Append(handoff, [elem |-> cur, payload |-> Head(mpayload)])
  /\ IF elems[cur].err = "EOF"
     THEN /\ nepConn' = "nil"
          /\ procRet' = "nil"
          /\ eofFrom' = "payload"
          /\ procPc' = "returned"
          /\ UNCHANGED mpayload
     ELSE /\ mpayload' = Tail(mpayload)
          /\ procPc' = IF Tail(mpayload) = <<>> THEN "read" ELSE "recv"
          /\ UNCHANGED <<nepConn, procRet, eofFrom>>
  /\ UNCHANGED <<nRead, readQueue, queueClosed, cur>>
  /\ UNCHANGED notProc

ProcNext ==
  \/ DeviceReceive
  \/ BindClose
  \/ ProcStart
  \/ ProcRead
  \/ ProcRecv
  \/ ProcFill
  \/ ProcSignal

(***************************************************************************)
(* WireGuard inbound: the routing info shared by Process and the           *)
(* forwarders.                                                             *)
(***************************************************************************)
\* the number of Process calls made on the server
MaxCalls == 2

\* the fields of routingInfo in declaration order; the three session tags are
\* one field here
InfoFields == <<"ctx", "dispatcher", "tags">>

\* the forwarders registered by setConnectionHandler, one flow of each
Forwarders == {"tcp", "udp"}

\* the zero value of routingInfo: Server.info before any Process call
ZeroInfo == [f \in Range(InfoFields) |-> 0]

RouteInit ==
  /\ sInfo = ZeroInfo
  /\ infoPending = [c \in 1..MaxCalls |-> InfoFields]
  /\ flows = [fl \in Forwarders |-> [pc |-> "copy", left |-> InfoFields, info |-> ZeroInfo]]
  /\ dispatched = {}

\* the flows that have been handed to forwardConnection
Handed == {fl \in Forwarders : flows[fl].pc # "copy"}

\* InfoWrite with forwardConnection given a pointer to s.info instead of a copy
InfoWrite_Aliased(c) ==
  /\ infoPending[c] # <<>>
  /\ LET f == Head(infoPending[c])
     IN /\ sInfo' = [sInfo EXCEPT ![f] = c]
        /\ flows' = [fl \in Forwarders |->
                       IF fl \in Handed THEN [flows[fl] EXCEPT !.info[f] = c]
                       ELSE flows[fl]]
  /\ infoPending' = [infoPending EXCEPT ![c] = Tail(@)]
  /\ UNCHANGED dispatched
  /\ UNCHANGED notRoute

\* s.info = routingInfo{...} in Process call c: the assignment is not atomic and
\* not synchronized with the forwarders or with other Process calls; it stores
\* one field at a time
InfoWrite(c) ==
  /\ infoPending[c] # <<>>
  /\ sInfo' = [sInfo EXCEPT ![Head(infoPending[c])] = c]
  /\ infoPending' = [infoPending EXCEPT ![c] = Tail(@)]
  /\ UNCHANGED <<flows, dispatched>>
  /\ UNCHANGED notRoute

\* s.forwardConnection(s.info, ...) in a forwarder's goroutine: s.info is copied
\* into the parameter one field at a time; the call begins when the copy is whole
InfoCopy(fl) ==
  /\ flows[fl].pc = "copy"
  /\ LET f == Head(flows[fl].left)
     IN flows' = [flows EXCEPT ![fl] =
                    [pc |-> IF Len(@.left) = 1 THEN "handed" ELSE "copy",
                     left |-> Tail(@.left),
                     info |-> [@.info EXCEPT ![f] = sInfo[f]]]]
  /\ UNCHANGED <<sInfo, infoPending, dispatched>>
  /\ UNCHANGED notRoute

\* if info.dispatcher == nil { log; return }; otherwise the flow goes on to
\* info.dispatcher.Dispatch(ctx, dest)
ForwardCheck(fl) ==
  /\ flows[fl].pc = "handed"
  /\ IF flows[fl].info["dispatcher"] = 0
     THEN /\ flows' = [flows EXCEPT ![fl].pc = "dropped"]
          /\ UNCHANGED dispatched
     ELSE /\ flows' = [flows EXCEPT ![fl].pc = "dispatched"]
          /\ dispatched' = dispatched \cup {fl}
  /\ UNCHANGED <<sInfo, infoPending>>
  /\ UNCHANGED notRoute

RouteNext ==
  \/ \E c \in 1..MaxCalls : InfoWrite(c)
  \/ \E fl \in Forwarders : InfoCopy(fl)
  \/ \E fl \in Forwarders : ForwardCheck(fl)

(***************************************************************************)
(* Specifications.                                                         *)
(***************************************************************************)
\* a SplitHTTP session: Dial, the caller, the producer and the uploaders
Init == SplitInit /\ FwdInit /\ LpInit /\ MlInit /\ AdOff /\ CsOff /\ ProcInit /\ RouteInit

Spec == Init /\ [][SplitNext]_vars

\* the state in which Dial has returned a connection: the GET answered 200, the
\* pipe and the producer exist, the two-byte ack has been read
InitSession ==
  /\ dialPc = "done" /\ dialRet = "conn" /\ dialErr = NoErr
  /\ downStatus = 200 /\ downBody = Body(2) /\ bodyPos = 2 /\ delivered = <<>>
  /\ pipeExists = TRUE /\ pipeData = <<>> /\ pipeClosed = FALSE
  /\ callerPc = "idle" /\ bwBuf = <<>> /\ written = 0 /\ writesDone = 0
  /\ prodPc = "read" /\ chunk = <<>>
  /\ requestsLimiter = MaxConcurrentUploads /\ requestCounter = 0
  /\ uploaders = {} /\ launched = <<>> /\ bodies = <<>>
  /\ posts = {} /\ exitPaths = {}
  /\ FwdInit /\ LpInit /\ MlInit /\ AdOff /\ CsOff /\ ProcInit /\ RouteInit

\* the upload side of a dialed connection: the caller, the producer, the uploaders
SessionNext ==
  \/ \E n \in WriteLens : Write(n)
  \/ Flush
  \/ Close
  \/ ProducerRead
  \/ ProducerLaunch
  \/ \E u \in uploaders : UploaderBuild(u)
  \/ \E u \in uploaders : UploaderDo(u)

\* the upload side of a dialed connection in which the goroutines that can run
\* do run: the producer is scheduled, and every uploader's request ends
SpecSessionFair ==
  /\ InitSession /\ [][SessionNext]_vars
  /\ WF_vars(ProducerRead)
  /\ WF_vars(ProducerLaunch)
  /\ WF_vars(\E u \in uploaders : UploaderBuild(u))
  /\ WF_vars(\E u \in uploaders : UploaderDo(u))

\* one forwarded flow and its inactivity timer
SpecForward == Init /\ [][FwdNext]_vars

\* a stream written by a LengthPacketWriter and read by a LengthPacketReader
SpecLengthPacket == Init /\ [][LpNext]_vars

\* calls of MultiLengthPacketWriter.WriteMultiBuffer
SpecMultiLength == Init /\ [][MlNext]_vars

InitAddons == SplitInit /\ FwdInit /\ LpInit /\ MlInit /\ AdInit /\ CsOff /\ ProcInit /\ RouteInit

\* EncodeHeaderAddons of an addon record, then DecodeHeaderAddons of its output
SpecAddons == InitAddons /\ [][AdNext]_vars

InitCheckSeed == SplitInit /\ FwdInit /\ LpInit /\ MlInit /\ AdOff /\ CsInit /\ ProcInit /\ RouteInit

\* CheckSeed on a pair of addon records
SpecCheckSeed == InitCheckSeed /\ [][CsNext]_vars

\* one call of Server.Process beside the device's workers
SpecProcess == Init /\ [][ProcNext]_vars

\* Process calls writing s.info beside the forwarders' goroutines reading it
SpecRouting == Init /\ [][RouteNext]_vars

(***************************************************************************)
(* SplitHTTP: properties.                                                  *)
(***************************************************************************)
\* C1: in every reachable state the uploaders that were launched and have not
\* exited (the POSTs holding a permit) number at most maxConcurrentUploads.
C1_ConcurrencyBound == Cardinality(uploaders) <= MaxConcurrentUploads

\* C1 witness: every permit is held and the producer waits with a further chunk
C1_Witness ==
  /\ Cardinality(uploaders) = MaxConcurrentUploads
  /\ requestsLimiter = 0
  /\ prodPc = "wait"

\* C2: the seq values given to the uploads of a session are 0,1,2,... in launch
\* order, without gap or duplicate, whatever way earlier uploads ended; a seq
\* names at most one POST body.
C2_SeqMonotone ==
  /\ \A i \in 1..Len(launched) : launched[i] = i - 1
  /\ requestCounter = Len(launched)
  /\ \A u \in uploaders : u.seq \in Range(launched)
  /\ \A u1, u2 \in uploaders : u1.seq = u2.seq => u1 = u2
  /\ \A p \in posts : p.seq \in Range(launched)
  /\ \A p1, p2 \in posts : p1.seq = p2.seq => p1 = p2

\* C2 witness: uploads have failed in each of the three ways and a later upload
\* was launched with the next seq
C2_Witness ==
  /\ {"build failed", "transport error", "bad status"} \subseteq exitPaths
  /\ launched = <<0, 1, 2, 3>>
  /\ \E u \in uploaders : u.seq = 3

\* the bytes of returned Writes that the producer has not read yet
Buffered == Len(pipeData) + (IF callerPc = "flush" THEN 0 ELSE Len(bwBuf))

\* C3: no Write returns in a step taken with the pipe holding maxUploadSize
\* bytes (the producer has to drain it first), and the bytes accepted from the
\* caller and not yet read by the producer never exceed the pipe's size limit,
\* in particular while the producer waits for a permit.
C3_BackPressure ==
  /\ [](Buffered <= MaxUploadSize)
  /\ [][Len(pipeData) >= MaxUploadSize => writesDone' = writesDone]_vars

\* C3 witness: the pipe is full, the caller is blocked inside Write, and the
\* producer is blocked on the semaphore with no permit free
C3_Witness ==
  /\ Len(pipeData) = MaxUploadSize
  /\ callerPc = "flush"
  /\ prodPc = "wait"
  /\ requestsLimiter = 0

\* C10: Dial returns a connection exactly when the GET answered 200 and two
\* bytes of the body could be read; a non-200 status gives an error carrying the
\* status, a body of fewer than two bytes gives "failed to read initial
\* response", and the connection's reader yields the body from its third byte.
C10_DialResult ==
  /\ dialPc # "done" => dialRet = "none"
  /\ dialPc = "done" =>
       /\ dialRet = "conn" <=> (downStatus = 200 /\ Len(downBody) >= 2)
       /\ dialRet # "conn" => dialRet = "error"
       /\ downStatus \notin {0, 200} =>
            dialErr = [msg |-> "invalid status code on download:", status |-> downStatus]
       /\ (downStatus = 200 /\ Len(downBody) < 2) =>
            dialErr.msg = "failed to read initial response"
  /\ dialRet = "conn" => delivered = SubSeq(downBody, 3, bodyPos)

\* C10 witness: Dial returned a connection and the caller has read the third
\* byte of the body as the first byte of the stream
C10_Witness ==
  /\ dialRet = "conn"
  /\ Len(downBody) >= 3
  /\ delivered = <<downBody[3]>>

(***************************************************************************)
(* forwardConnection: properties.                                          *)
(***************************************************************************)
ReqCompleted == reqPc \in {"done", "closed", "failed"}

RespCompleted == respPc \in {"done", "failed"}

FlowLive == fPc = "run" /\ ~ctxDone

\* C4: while neither half has completed the timer runs with ConnectionIdle and
\* the flow does not stay uncancelled beyond ConnectionIdle ticks without a
\* transport; once the request half has completed (and the response half has
\* not) the timer runs with DownlinkOnly and the flow does not stay uncancelled
\* beyond DownlinkOnly ticks of inactivity; and the timer cancels the context
\* only when no buffer was transported during the current timeout.
C4_ForwardInactivity ==
  /\ []((FlowLive /\ ~ReqCompleted /\ ~RespCompleted) =>
          (timeout = ConnectionIdle /\ sinceTransport <= ConnectionIdle))
  /\ []((FlowLive /\ ReqCompleted /\ ~RespCompleted) =>
          (timeout = DownlinkOnly /\ idle <= DownlinkOnly))
  /\ [][(cancelBy = "none" /\ cancelBy' = "timer") => sinceTransport >= timeout]_vars

\* C4 witness: the request half has completed, the response half is still
\* copying, and the timer has cancelled the context after DownlinkOnly ticks
C4_Witness ==
  /\ fPc = "run"
  /\ ReqCompleted
  /\ respPc = "copy"
  /\ cancelBy = "timer"
  /\ timeout = DownlinkOnly
  /\ idle = DownlinkOnly

(***************************************************************************)
(* Length-prefixed packet codec: properties.                               *)
(***************************************************************************)
\* C5: the packets read from the stream are, call by call and in order, the
\* non-empty packets written to it (total length at most 65535, buffers of at
\* most BufSize bytes), each with exactly the bytes of the multi-buffer written;
\* the reader fails only at the end of the stream, after the last packet.
C5_LengthPacketRoundTrip ==
  /\ Len(pktRead) <= Len(pktSent)
  /\ \A i \in 1..Len(pktRead) :
       /\ Concat(pktRead[i]) = Concat(MakeMB(pktSent[i]))
       /\ \A k \in 1..Len(pktRead[i]) : Len(pktRead[i][k]) <= BufSize
  /\ pktErr # "" =>
       /\ pktErr = "failed to read packet length"
       /\ pktClosed
       /\ Len(pktRead) = Len(pktSent)

\* C5 witness: a packet of BufSize+1 bytes in two buffers and then a packet of
\* 255 bytes in three buffers have been written and read back, one per call
C5_Witness ==
  /\ Len(pktRead) = 2
  /\ pktSent = <<<<BufSize, 1>>, <<2, 0, 253>>>>
  /\ Len(pktRead[1]) = 2
  /\ MBLen(pktRead[1]) = BufSize + 1
  /\ MBLen(pktRead[2]) = 255

\* an element MultiLengthPacketWriter is to retain
MLKeep(b) == Len(b) # 0 /\ Len(b) + 2 <= BufSize

\* C6: the call drops the elements of length 0 or length+2 > BufSize and hands
\* the others, in order, each as its 2-byte big-endian length followed by its
\* bytes, to the underlying writer in a single write; when none is retained it
\* writes nothing and returns nil.
C6_MultiLengthFilter ==
  mlCalled =>
    LET kept == SelectSeq(MakeMB(mlIn), MLKeep)
        expected == [i \in 1..Len(kept) |->
                       <<Len(kept[i]) \div 256, Len(kept[i]) % 256>> \o kept[i]]
    IN IF kept = <<>>
       THEN mlOut = <<>> /\ mlRet = "nil"
       ELSE mlOut = <<expected>> /\ mlRet \in {"nil", "error"}

\* C6 witness: of an empty, a largest retained and an oversized element, the
\* call has written the retained one alone
C6_Witness ==
  /\ mlCalled
  /\ mlIn = <<0, BufSize - 2, BufSize - 1>>
  /\ Len(mlOut) = 1
  /\ Len(mlOut[1]) = 1
  /\ Len(mlOut[1][1]) = BufSize

(***************************************************************************)
(* Addon header codec and CheckSeed: properties.                           *)
(***************************************************************************)
\* C7: for addons with Flow = "xtls-rprx-vision" or a non-empty Seed, decoding
\* what was encoded returns the addons; for all other addons the encoding is the
\* single byte 0 and decoding returns an empty record without deserializing and
\* without reading past the length byte.
C7_AddonRoundTrip ==
  /\ adPc # "input" =>
       (~(adIn.Flow = XRV \/ Len(adIn.Seed) > 0) => adWire = <<0>>)
  /\ adPc = "decoded" =>
       IF adIn.Flow = XRV \/ Len(adIn.Seed) > 0
       THEN adDecErr = "" /\ adOut = adIn
       ELSE adDecErr = "" /\ adOut = EmptyAddons /\ ~adUnmarshal /\ adLeft = <<>>

\* C8: EncodeHeaderAddons returns an error when the serialized record is longer
\* than 255 bytes, and a length byte it emits equals the number of serialized
\* bytes that follow it.
C8_EncodeLengthChecked ==
  adPc # "input" =>
    /\ (adIn.Flow = XRV \/ Len(adIn.Seed) > 0) /\ Len(Marshal(adIn)) > 255
         => adEncErr # ""
    /\ adEncErr = "" => (adWire # <<>> /\ adWire[1] = Len(adWire) - 1)

\* the round trip of C7 for the records whose serialized form is at most 255
\* bytes long
AddonRoundTripWithin255 ==
  (adPc = "decoded" /\ Len(Marshal(adIn)) <= 255) =>
       IF adIn.Flow = XRV \/ Len(adIn.Seed) > 0
       THEN adDecErr = "" /\ adOut = adIn /\ adLeft = <<>>
       ELSE adDecErr = "" /\ adOut = EmptyAddons /\ ~adUnmarshal /\ adLeft = <<>>

\* the condition under which C9 says CheckSeed fails
SeedDiffers(a, b) ==
  \/ a.Seed # b.Seed
  \/ a.Mode # b.Mode
  \/ a.Duration # b.Duration
  \/ a.Padding.present # b.Padding.present
  \/ a.Delay.present # b.Delay.present
  \/ a.Scheduler.present # b.Scheduler.present
  \/ a.Padding.present /\ b.Padding.present /\ a.Padding # b.Padding
  \/ a.Delay.present /\ b.Delay.present /\ a.Delay # b.Delay
  \/ a.Scheduler.present /\ b.Scheduler.present /\ a.Scheduler # b.Scheduler

\* C9: CheckSeed(a, b) fails exactly when CheckSeed(b, a) fails, and exactly
\* when Seed, Mode or Duration differ, a sub-record is present in one record
\* only, or a sub-record present in both differs on a compared field.
C9_CheckSeedSymmetricStrict ==
  csRet # "none" =>
    /\ (csRet # "nil") <=> (CheckSeed(csB, csA) # "nil")
    /\ (csRet # "nil") <=> SeedDiffers(csA, csB)

\* C9 witness: CheckSeed has failed on two records that differ only in LongMax
\* of a Padding present in both
C9_Witness ==
  /\ csRet = "Padding not match"
  /\ csA.Padding.present /\ csB.Padding.present
  /\ csA.Padding.LongMax # csB.Padding.LongMax
  /\ [csA.Padding EXCEPT !.LongMax = 0] = [csB.Padding EXCEPT !.LongMax = 0]

(***************************************************************************)
(* SplitHTTP: batching, permits, close and dial errors.                    *)
(***************************************************************************)
\* the bytes the caller has passed to Write, in order
WrittenBytes == [i \in 1..written |-> i]

\* exactly two Writes have returned, both fitted in the pipe together, and the
\* producer has read and launched everything they wrote
TwoWritesUploaded ==
  /\ writesDone = 2
  /\ callerPc # "flush"
  /\ written <= MaxUploadSize
  /\ pipeData = <<>>
  /\ prodPc = "read"

\* C11: two consecutive caller writes on a freshly dialed connection are read
\* from the pipe as one multi-buffer and give exactly one POST, with seq 0 and
\* the concatenation of the two writes as body, under every interleaving.
C11_TwoWritesOnePost ==
  TwoWritesUploaded =>
    /\ launched = <<0>>
    /\ bodies = <<WrittenBytes>>
    /\ posts \subseteq {[seq |-> 0, body |-> WrittenBytes]}

\* C11 as amended: two consecutive writes give either one POST with seq 0 and
\* the concatenation as body, or, when the producer read the pipe between the
\* two Flushes, two POSTs with seq 0 and seq 1 carrying the first and the
\* second write; the bodies in seq order concatenate to the bytes written.
C11_TwoWritesBatchedOrSplit ==
  TwoWritesUploaded =>
    \/ /\ launched = <<0>>
       /\ bodies = <<WrittenBytes>>
       /\ posts \subseteq {[seq |-> 0, body |-> WrittenBytes]}
    \/ /\ launched = <<0, 1>>
       /\ Len(bodies) = 2
       /\ Len(bodies[1]) \in WriteLens /\ Len(bodies[2]) \in WriteLens
       /\ bodies[1] \o bodies[2] = WrittenBytes
       /\ posts \subseteq {[seq |-> 0, body |-> bodies[1]], [seq |-> 1, body |-> bodies[2]]}

\* C11 witness: both writes were flushed before the producer read, and the one
\* POST with seq 0 carries both
C11_Witness ==
  /\ TwoWritesUploaded
  /\ written = 2
  /\ posts = {[seq |-> 0, body |-> <<1, 2>>]}

(***************************************************************************)
(* Server.Process: properties.                                             *)
(***************************************************************************)
\* C12: when Process meets EOF, whether from conn's packet reader or from
\* reading a payload buffer, it clears the endpoint's conn and returns nil.
C12_EofClearsConnReturnsNil ==
  (procPc = "returned" /\ eofFrom # "none") =>
     (procRet = "nil" /\ nepConn = "nil")

\* the elements Process has signalled
HandedElems == {handoff[k].elem : k \in 1..Len(handoff)}

\* C20: the k-th payload read is handed to the k-th element taken from the
\* readQueue and to no other; a signalled element holds the payload's bytes,
\* its byte count, the endpoint and the read's error; an element's waiter is
\* signalled at most once and only after its fields are set; and a closed
\* readQueue makes Process return nil with no further element signalled.
C20_HandoffOnceFifo ==
  /\ \A k \in 1..Len(handoff) :
       LET e == elems[handoff[k].elem]
           pl == handoff[k].payload
       IN /\ pl.id = k
          /\ handoff[k].elem = k
          /\ e.done = 1
          /\ e.bytes = pl.len
          /\ SubSeq(e.buff, 1, pl.len) = Fill(pl.len, pl.id)
          /\ e.endpoint = "nep"
          /\ e.err = IF pl.len = 0 THEN "EOF" ELSE "nil"
  /\ \A e \in 1..Len(elems) :
       /\ elems[e].done <= 1
       /\ elems[e].done = 1 => elems[e].filled
       /\ elems[e].done = 1 <=> e \in HandedElems
  /\ (procPc = "returned" /\ procRet = "nil" /\ eofFrom = "none") =>
       /\ queueClosed /\ readQueue = <<>>
       /\ Len(handoff) < nRead

\* C20 witness: two payloads were handed off in order, then the readQueue was
\* found closed and Process returned nil
C20_Witness ==
  /\ procPc = "returned" /\ procRet = "nil" /\ eofFrom = "none"
  /\ Len(handoff) = 2
  /\ handoff[1].payload.len = 2 /\ handoff[2].payload.len = 1
  /\ Len(elems) = 2

(***************************************************************************)
(* forwardConnection: dispatch errors, detachment, completion.             *)
(***************************************************************************)
\* C13: when Dispatch returns an error the pipeline still runs to an orderly
\* end: both halves are started, nothing is attempted on the absent link, and
\* forwardConnection returns with conn closed and the context cancelled.
C13_DispatchErrorOrderly ==
  linkNil =>
    /\ fPc \in {"run", "returned"}
    /\ reqPc # "idle" /\ respPc # "idle"
    /\ fPc = "returned" => (connClosed /\ ctxDone)

\* C14: the flow's context does not descend from the context passed to
\* Process; a step that cancels that context leaves the flow's context as it
\* is; the flow's context is cancelled only by the inactivity timer or by
\* forwardConnection's own deferred cancel; and a running flow returns only
\* when both halves have completed, a half has failed, or the timer has fired.
C14_FlowDetached ==
  /\ [](ctxParent # "process")
  /\ [][procCtxDone' # procCtxDone => ctxDone' = ctxDone]_vars
  /\ [][ctxDone' # ctxDone => cancelBy' \in {"timer", "defer"}]_vars
  /\ [][(fPc = "run" /\ fPc' = "returned") =>
          \/ reqPc = "closed" /\ respPc = "done"
          \/ reqPc = "failed" \/ respPc = "failed"
          \/ cancelBy = "timer"]_vars

\* C14 witness: the context passed to Process is cancelled and the flow is
\* still live, both halves copying
C14_Witness ==
  /\ procCtxDone
  /\ FlowLive
  /\ reqPc = "copy" /\ respPc = "copy"
  /\ sinceTransport = 0 /\ idle = 0

\* C18: the request half's completion sets the timer to DownlinkOnly and its
\* success is followed by closing link.Writer; the response half's completion
\* sets the timer to UplinkOnly; a return of task.Run after a failed half, or
\* after a cancellation with a half not completed, interrupts the link; and
\* forwardConnection returns with conn closed and the context cancelled.
C18_HalfCompletion ==
  /\ [][(reqPc = "copy" /\ reqPc' # "copy") => timeout' = DownlinkOnly]_vars
  /\ [][(respPc = "copy" /\ respPc' # "copy") => timeout' = UplinkOnly]_vars
  /\ [][(reqPc = "done" /\ reqPc' # "done") => (reqPc' = "closed" /\ writerClosed')]_vars
  /\ [](writerClosed <=> reqPc = "closed")
  /\ [][(fPc = "run" /\ fPc' = "returned") =>
          /\ (reqPc = "failed" \/ respPc = "failed"
              \/ (ctxDone /\ ~(reqPc = "closed" /\ respPc = "done"))) => interrupted'
          /\ ~interrupted' => (reqPc = "closed" /\ respPc = "done")
          /\ connClosed' /\ ctxDone']_vars
  /\ [](fPc = "returned" => (connClosed /\ ctxDone))

\* C18 witness: the request half completed and closed link.Writer, the response
\* half then failed, and forwardConnection returned after interrupting the link
C18_Witness ==
  /\ fPc = "returned"
  /\ reqPc = "closed" /\ writerClosed
  /\ respPc = "failed"
  /\ timeout = UplinkOnly
  /\ interrupted /\ connClosed /\ ctxDone

(***************************************************************************)
(* SplitHTTP: permits, close, dial errors, byte order.                     *)
(***************************************************************************)
\* C15: every permit taken by the producer is held by exactly one live
\* uploader and is given back when that uploader exits, whatever the exit path,
\* so the free permits and the live uploaders always add up to
\* maxConcurrentUploads; the producer leaves its loop only on a closed pipe,
\* never because an upload failed; and with no uploader alive every permit is
\* free.
C15_PermitsReleased ==
  /\ requestsLimiter >= 0
  /\ prodPc # "none" =>
       requestsLimiter + Cardinality(uploaders) = MaxConcurrentUploads
  /\ (prodPc # "none" /\ uploaders = {}) => requestsLimiter = MaxConcurrentUploads
  /\ prodPc = "exited" => pipeClosed
  /\ (prodPc = "wait" /\ uploaders = {}) => ENABLED ProducerLaunch

\* C15 witness: uploads have ended on each of the four exit paths, a further
\* upload was launched after the failures, and all permits are free again
C15_Witness ==
  /\ exitPaths = {"build failed", "transport error", "bad status", "ok"}
  /\ launched = <<0, 1, 2, 3>>
  /\ uploaders = {}
  /\ requestsLimiter = MaxConcurrentUploads

\* C17: the pipe and the producer exist only once the two-byte ack has been
\* read, and when Dial has returned an error no pipe exists and no producer
\* task is running or blocked.
C17_NoPartialStateOnDialError ==
  /\ dialPc = "ack" => (~pipeExists /\ prodPc = "none")
  /\ dialRet = "error" => (~pipeExists /\ prodPc = "none")

\* C19: the chunks given to the uploads, taken in seq order, concatenate to a
\* prefix of the bytes written, and together with the bytes still in the
\* producer's hand, the pipe and the buffered writer they are exactly the bytes
\* written, in order; every POST carries the chunk of its seq, and a seq has at
\* most one POST.
C19_BodiesArePrefix ==
  /\ Len(bodies) = Len(launched)
  /\ IsPrefix(Concat(bodies), WrittenBytes)
  /\ Concat(bodies) \o chunk \o pipeData \o bwBuf = WrittenBytes
  /\ \A i \in 1..Len(bodies) : bodies[i] # <<>>
  /\ \A u \in uploaders : u.seq < Len(bodies) /\ u.body = bodies[u.seq + 1]
  /\ \A q \in posts : q.seq < Len(bodies) /\ q.body = bodies[q.seq + 1]
  /\ \A q1, q2 \in posts : q1.seq = q2.seq => q1 = q2

\* C19 witness: two POSTs were sent, seq 0 with the first byte written and
\* seq 1 with the next three
C19_Witness ==
  posts = {[seq |-> 0, body |-> <<1>>], [seq |-> 1, body |-> <<2, 3, 4>>]}

\* C16: closing the writer closes the pipe; the producer then leaves its loop,
\* provided the uploads in flight end; it leaves only after everything written
\* before the close was read and given to an upload; nothing is launched once
\* it has left; and the close changes nothing about the uploads in flight.
C16_CloseEndsProducer ==
  /\ [](callerPc = "closed" => pipeClosed)
  /\ [](prodPc = "exited" =>
          (pipeClosed /\ pipeData = <<>> /\ chunk = <<>>
           /\ Concat(bodies) = WrittenBytes))
  /\ [][prodPc = "exited" =>
          (prodPc' = "exited" /\ launched' = launched /\ bodies' = bodies)]_vars
  /\ [][pipeClosed' # pipeClosed => (uploaders' = uploaders /\ posts' = posts)]_vars
  /\ (pipeClosed ~> prodPc = "exited")

\* C16 witness: the caller has closed the writer, the producer has left its
\* loop after launching what was written, and a POST is still in flight
C16_Witness ==
  /\ callerPc = "closed"
  /\ prodPc = "exited"
  /\ written > 0
  /\ \E u \in uploaders : u.pc = "do"

(***************************************************************************)
(* Routing info: properties.                                               *)
(***************************************************************************)
\* C21: the routing info of a flow handed to forwardConnection is changed by
\* no later step, whatever Process calls write to s.info meanwhile; and a flow
\* whose routing info has a nil dispatcher is dropped and Dispatch is not
\* called for it, while Dispatch is called only with a dispatcher a Process
\* call has stored.
C21_RoutingInfoReadOnly ==
  /\ [][\A fl \in Forwarders :
          flows[fl].pc # "copy" => flows'[fl].info = flows[fl].info]_vars
  /\ [](\A fl \in Forwarders :
          /\ (flows[fl].pc # "copy" /\ flows[fl].info["dispatcher"] = 0) =>
               (flows[fl].pc \in {"handed", "dropped"} /\ fl \notin dispatched)
          /\ fl \in dispatched => flows[fl].info["dispatcher"] \in 1..MaxCalls
          /\ flows[fl].pc = "dropped" => flows[fl].info["dispatcher"] = 0)

\* C21 witness: the UDP flow fired before any Process call and was dropped; the
\* TCP flow was handed the routing info of the first Process call and keeps it
\* after the second call has overwritten s.info
C21_Witness ==
  /\ flows["udp"].pc = "dropped"
  /\ flows["udp"].info = ZeroInfo
  /\ flows["tcp"].pc = "dispatched"
  /\ flows["tcp"].info = [f \in Range(InfoFields) |-> 1]
  /\ sInfo = [f \in Range(InfoFields) |-> 2]
  /\ dispatched = {"tcp"}

====
